---- MODULE Spec2Model ----
(***************************************************************************)
(* quad-net, src/http_request.rs: a one-shot asynchronous HTTP request.    *)
(*                                                                         *)
(* Native backend: RequestBuilder::send spawns a worker thread that does   *)
(* the blocking transport call, sends the result into an mpsc channel and  *)
(* invokes the waker stored in the mutex-guarded SharedState; Request::poll*)
(* locks the SharedState, tries a non-blocking receive and otherwise       *)
(* stores the waker of the polling task.                                   *)
(*                                                                         *)
(* wasm32 backend: send issues http_make_request and Request::try_recv     *)
(* asks the host with http_try_recv whether the body has arrived.          *)
(***************************************************************************)
EXTENDS Integers, Sequences, FiniteSets, TLC

(***************************************************************************)
(* Bounds of the model.                                                    *)
(***************************************************************************)
\* polls of one Request that the scheduler starts
MaxPolls == 3

\* header() calls on one builder
MaxHeaders == 2

\* bytes in a response buffer handed over by the host
MaxBufLen == 2

\* send(&self) calls on one builder (wasm32)
MaxSends == 2

(***************************************************************************)
(* Values.                                                                 *)
(***************************************************************************)
\* enum Method
Methods == {"Post", "Put", "Get", "Delete"}

\* input values of the builder calls
Urls == {"http://a/"}
HeaderPairs == {<<"A", "1">>, <<"B", "2">>}
BodyTexts == {"", "payload"}

\* response texts of the native transport (sequences of code points)
ResponseTexts == {<<>>, <<104, 105>>}

\* Option<T>: None is the empty sequence, Some(x) the one-element sequence
None == <<>>
Some(x) == <<x>>
IsSome(o) == Len(o) > 0
Unwrap(o) == o[1]

\* Result<String, HttpError>
Ok(t) == [tag |-> "Ok", text |-> t, err |-> "none"]
Err(e) == [tag |-> "Err", text |-> <<>>, err |-> e]

\* Poll<Result<String, HttpError>>
Ready(r) == [tag |-> "Ready", res |-> Some(r)]
Pending == [tag |-> "Pending", res |-> None]

VARIABLES
    stage,          \* "start", "building" (a RequestBuilder exists), "sent"
    builder,        \* Option: the caller's RequestBuilder value
    callLog,        \* Option: the arguments the builder calls were made with: the
                    \* url of new, the header() pairs in call order, the last
                    \* method() and the last body() argument if there was one
    closure,        \* Option: the RequestBuilder moved into the worker closure
    dispatched,     \* Option: the transport call the worker has in flight
    wpc,            \* worker thread: "idle","call","wait","send","lock","held",
                    \* "exit","done","panic"
    response,       \* Option: the worker's local `response`
    chan,           \* the mpsc channel: results sent and not yet received
    txAlive,        \* the Sender `tx` has not been dropped
    waker,          \* Option: SharedState.waker (a waker is named by the poll that made it)
    lock,           \* the Mutex of SharedState: "free", "worker", "poll"
    ppc,            \* polling task: "none" (no Request), "idle", "lock", "held"
    pollNo,         \* polls started so far; the running poll's number
    ret,            \* Option: what the last finished poll returned
    readyCount,     \* polls that returned Ready
    lastPending,    \* number of the most recent poll that returned Pending (0: none)
    wakeLog,        \* the wakers the worker invoked, in order
    notified,       \* the scheduler has a poll of the task outstanding
    dropped,        \* the Request was dropped
    droppedAt,      \* where the worker was (wpc) when the Request was dropped, or "never"
    sentLog,        \* the values tx.send put into the channel, in order
    transportCalls, \* transport calls issued
    outcome,        \* Option: what the transport call returned
    panicked,       \* the parties that panicked
    cid,            \* Option: Request.cid of the wasm32 Request
    hostState,      \* the host's entry for cid: "none", "pending", "ready", "taken"
    hostBuf,        \* the response bytes the host holds (kept after they were taken)
    madeRequests,   \* the http_make_request calls the host received, in order
    wlog,           \* what the try_recv calls returned, in order
    wpolls,         \* try_recv calls made
    textOut         \* try_recv calls that returned Some(Ok(text))

vars == <<stage, builder, callLog, closure, dispatched, wpc, response, chan, txAlive,
          waker, lock, ppc, pollNo, ret, readyCount, lastPending, wakeLog, notified,
          dropped, droppedAt, sentLog, transportCalls, outcome, panicked, cid, hostState, hostBuf, madeRequests,
          wlog, wpolls, textOut>>

builderVars == <<stage, builder, callLog>>
workerVars == <<closure, dispatched, wpc, response, txAlive, sentLog, transportCalls,
                outcome>>
pollVars == <<ppc, pollNo, ret, readyCount, lastPending>>
sharedVars == <<chan, waker, lock, wakeLog, notified, dropped, droppedAt>>
wasmVars == <<cid, hostState, hostBuf, madeRequests, wlog, wpolls, textOut>>

(***************************************************************************)
(* RequestBuilder (lines 106-141).                                         *)
(***************************************************************************)
new(url) == [url |-> url, method |-> "Get", headers |-> <<>>, body |-> None]

\* a method() that starts from a fresh spec for the url
method_fresh(self, m) ==
    [url |-> self.url, method |-> m, headers |-> <<>>, body |-> None]

method(self, m) == [self EXCEPT !.method = m]

\* a header() that puts the new pair in front
header_front(self, h, v) == [self EXCEPT !.headers = <<<<h, v>>>> \o self.headers]

header(self, h, v) == [self EXCEPT !.headers = Append(self.headers, <<h, v>>)]

body(self, t) == [self EXCEPT !.body = Some(t)]

CallNew ==
    /\ stage = "start"
    /\ \E url \in Urls :
        /\ builder' = Some(new(url))
        /\ callLog' = Some([url |-> url, method |-> None, headers |-> <<>>,
                            body |-> None])
    /\ stage' = "building"
    /\ UNCHANGED <<workerVars, pollVars, chan, waker, lock, wakeLog, notified,
                   dropped, droppedAt, panicked,
                   wasmVars>>

CallMethod ==
    /\ stage = "building"
    /\ \E m \in Methods :
        /\ builder' = Some(method(Unwrap(builder), m))
        /\ callLog' = Some([Unwrap(callLog) EXCEPT !.method = Some(m)])
    /\ UNCHANGED <<stage, workerVars, pollVars, chan, waker, lock, wakeLog, notified,
                   dropped, droppedAt, panicked,
                   wasmVars>>

CallHeader ==
    /\ stage = "building"
    /\ Len(Unwrap(builder).headers) < MaxHeaders
    /\ \E p \in HeaderPairs :
        /\ builder' = Some(header(Unwrap(builder), p[1], p[2]))
        /\ callLog' = Some([Unwrap(callLog) EXCEPT !.headers = Append(@, p)])
    /\ UNCHANGED <<stage, workerVars, pollVars, chan, waker, lock, wakeLog, notified,
                   dropped, droppedAt, panicked,
                   wasmVars>>

CallBody ==
    /\ stage = "building"
    /\ \E t \in BodyTexts :
        /\ builder' = Some(body(Unwrap(builder), t))
        /\ callLog' = Some([Unwrap(callLog) EXCEPT !.body = Some(t)])
    /\ UNCHANGED <<stage, workerVars, pollVars, chan, waker, lock, wakeLog, notified,
                   dropped, droppedAt, panicked,
                   wasmVars>>

(***************************************************************************)
(* Native send (lines 143-181): the channel, the SharedState and the       *)
(* worker thread are created; the builder is moved into the closure.       *)
(***************************************************************************)
send ==
    /\ stage = "building"
    /\ stage' = "sent"
    /\ closure' = builder
    /\ builder' = None
    /\ chan' = <<>>
    /\ txAlive' = TRUE
    /\ waker' = None
    /\ lock' = "free"
    /\ wpc' = "call"
    /\ ppc' = "idle"
    /\ UNCHANGED <<callLog, dispatched, response, sentLog, transportCalls, outcome,
                   pollNo, ret, readyCount, lastPending, wakeLog, notified, dropped, droppedAt,
                   panicked, wasmVars>>

(***************************************************************************)
(* The worker closure (lines 152-177).                                     *)
(***************************************************************************)
\* what the transport can answer: the call fails, or it returns a response
\* whose into_string fails or yields a text
TransportOutcomes ==
    {[callOk |-> FALSE, readable |-> FALSE, text |-> <<>>],
     [callOk |-> TRUE, readable |-> FALSE, text |-> <<>>]}
    \cup {[callOk |-> TRUE, readable |-> TRUE, text |-> t] : t \in ResponseTexts}

\* an io error classified as a transport error
FromIoErrorAsUreq == "UreqError"

\* impl From<std::io::Error> for HttpError
FromIoError == "IOError"

\* impl From<ureq::Error> for HttpError
FromUreqError == "UreqError"

\* .map_err(|err| err.into()).and_then(|response| response.into_string().map_err(..))
MapResponse(o) ==
    IF ~o.callOk THEN Err(FromUreqError)
    ELSE IF ~o.readable THEN Err(FromIoError)
    ELSE Ok(o.text)

\* a count that leaves out the reference the worker closure holds
ArcCountRequestOnly ==
    IF stage = "sent" /\ ~dropped THEN 1 ELSE 0

\* the Arc<Mutex<SharedState>> that owns the Receiver is alive while the
\* Request or the running worker holds a reference
ArcCount ==
    (IF stage = "sent" /\ ~dropped THEN 1 ELSE 0)
    + (IF wpc \in {"call", "wait", "send", "lock", "held", "exit"} THEN 1 ELSE 0)

RxAlive == ArcCount > 0

\* lines 153-158: the ureq function (the HTTP verb) chosen for a Method
UreqMethod(m) ==
    IF m = "Post" THEN "POST"
    ELSE IF m = "Put" THEN "PUT"
    ELSE IF m = "Get" THEN "GET"
    ELSE "DELETE"

RECURSIVE ApplyHeaders(_, _)
\* lines 161-163: the loop over self.headers; sets is the sequence of
\* request.set(header, value) calls made so far
ApplyHeaders(sets, hs) ==
    IF Len(hs) = 0 THEN sets
    ELSE ApplyHeaders(Append(sets, <<Head(hs)[1], Head(hs)[2]>>), Tail(hs))

\* a worker that sends a payload only if the body text is not empty
CallVariantNonEmpty(b) ==
    IF IsSome(b) /\ Unwrap(b) # ""
    THEN [variant |-> "send_string", payload |-> Some(Unwrap(b))]
    ELSE [variant |-> "call", payload |-> None]

\* lines 164-168: request.send_string(&body) if the spec has a body, else request.call()
CallVariant(b) ==
    IF IsSome(b) THEN [variant |-> "send_string", payload |-> Some(Unwrap(b))]
    ELSE [variant |-> "call", payload |-> None]

\* lines 153-168: the call the worker makes from the spec it owns
UreqCall(self) ==
    [verb |-> UreqMethod(self.method),
     url |-> self.url,
     sets |-> ApplyHeaders(<<>>, self.headers),
     variant |-> CallVariant(self.body).variant,
     payload |-> CallVariant(self.body).payload]

\* lines 153-168: build the ureq request from the spec and issue the blocking call
Dispatch ==
    /\ wpc = "call"
    /\ dispatched' = Some(UreqCall(Unwrap(closure)))
    /\ closure' = None
    /\ transportCalls' = transportCalls + 1
    /\ wpc' = "wait"
    /\ UNCHANGED <<builderVars, pollVars, response, outcome, txAlive, sentLog, chan,
                   waker, lock, wakeLog, notified, dropped, droppedAt, panicked, wasmVars>>

\* lines 164-170: the blocking call returns and its result is mapped; the
\* spec and the request made from it are gone
Transport ==
    /\ wpc = "wait"
    /\ \E o \in TransportOutcomes :
        /\ outcome' = Some(o)
        /\ response' = Some(MapResponse(o))
    /\ dispatched' = None
    /\ callLog' = None
    /\ wpc' = "send"
    /\ UNCHANGED <<stage, builder, closure, transportCalls, pollVars, txAlive, sentLog,
                   chan, waker, lock, wakeLog, notified, dropped, droppedAt, panicked, wasmVars>>

\* a worker that sends its result twice
WorkerSendTwice ==
    /\ wpc = "send"
    /\ chan' = Append(Append(chan, Unwrap(response)), Unwrap(response))
    /\ sentLog' = Append(Append(sentLog, Unwrap(response)), Unwrap(response))
    /\ wpc' = "lock"
    /\ response' = None
    /\ UNCHANGED <<builderVars, pollVars, closure, dispatched, transportCalls, outcome, waker, lock,
                   wakeLog, notified, dropped, droppedAt, txAlive, panicked,
                   wasmVars>>

\* a worker that goes on to the lock without sending its result
WorkerSendSkipped ==
    /\ wpc = "send"
    /\ wpc' = "lock"
    /\ UNCHANGED <<builderVars, pollVars, closure, dispatched, response, transportCalls,
                   outcome, txAlive, sentLog, chan, waker, lock, wakeLog, notified,
                   dropped, droppedAt, panicked, wasmVars>>

\* line 172: tx.send(response).unwrap()
WorkerSend ==
    /\ wpc = "send"
    /\ IF RxAlive
       THEN /\ chan' = Append(chan, Unwrap(response))
            /\ sentLog' = Append(sentLog, Unwrap(response))
            /\ wpc' = "lock"
            /\ UNCHANGED <<txAlive, panicked>>
       ELSE /\ panicked' = panicked \cup {"worker"}
            /\ wpc' = "panic"
            /\ txAlive' = FALSE
            /\ UNCHANGED <<chan, sentLog>>
    /\ response' = None
    /\ UNCHANGED <<builderVars, pollVars, closure, dispatched, transportCalls, outcome, waker, lock,
                   wakeLog, notified, dropped, droppedAt,
                   wasmVars>>

\* a worker that gives up when the Request has been dropped
WorkerLockUnlessDropped ==
    /\ wpc = "lock"
    /\ ~dropped
    /\ lock = "free"
    /\ lock' = "worker"
    /\ wpc' = "held"
    /\ UNCHANGED <<builderVars, pollVars, closure, dispatched, response, txAlive, sentLog,
                   transportCalls, outcome, chan, waker, wakeLog, notified, dropped, droppedAt,
                   panicked,
                   wasmVars>>

\* line 173: state.lock().unwrap()
WorkerLock ==
    /\ wpc = "lock"
    /\ lock = "free"
    /\ lock' = "worker"
    /\ wpc' = "held"
    /\ UNCHANGED <<builderVars, pollVars, closure, dispatched, response, txAlive, sentLog,
                   transportCalls, outcome, chan, waker, wakeLog, notified, dropped, droppedAt,
                   panicked,
                   wasmVars>>

\* a worker that takes the waker out of the slot and never invokes it
WorkerWakeNoInvoke ==
    /\ wpc = "held"
    /\ waker' = None
    /\ wpc' = "exit"
    /\ UNCHANGED <<builderVars, pollVars, closure, dispatched, response, txAlive, sentLog,
                   transportCalls, outcome, chan, lock, wakeLog, notified, dropped, droppedAt,
                   panicked,
                   wasmVars>>

\* a worker that invokes the waker and leaves it in the slot
WorkerWakeKeepsSlot ==
    /\ wpc = "held"
    /\ IF IsSome(waker)
       THEN /\ wakeLog' = Append(wakeLog, Unwrap(waker))
            /\ notified' = TRUE
       ELSE UNCHANGED <<wakeLog, notified>>
    /\ wpc' = "exit"
    /\ UNCHANGED <<builderVars, pollVars, closure, dispatched, response, txAlive, sentLog,
                   transportCalls, outcome, chan, waker, lock, dropped, droppedAt,
                   panicked, wasmVars>>

\* lines 174-176: if let Some(waker) = shared_state.waker.take() { waker.wake() }
WorkerWake ==
    /\ wpc = "held"
    /\ IF IsSome(waker)
       THEN /\ wakeLog' = Append(wakeLog, Unwrap(waker))
            /\ notified' = TRUE
       ELSE UNCHANGED <<wakeLog, notified>>
    /\ waker' = None
    /\ wpc' = "exit"
    /\ UNCHANGED <<builderVars, pollVars, closure, dispatched, response, txAlive, sentLog,
                   transportCalls, outcome, chan, lock, dropped, droppedAt, panicked,
                   wasmVars>>

\* a worker that ends without releasing the guard (the guard is leaked)
WorkerExitLeakGuard ==
    /\ wpc = "exit"
    /\ txAlive' = FALSE
    /\ wpc' = "done"
    /\ UNCHANGED <<builderVars, pollVars, closure, dispatched, response, sentLog, transportCalls,
                   outcome, chan, waker, lock, wakeLog, notified, dropped, droppedAt, panicked,
                   wasmVars>>

\* line 177: the closure ends; the guard, tx and state are dropped
WorkerExit ==
    /\ wpc = "exit"
    /\ lock' = "free"
    /\ txAlive' = FALSE
    /\ wpc' = "done"
    /\ UNCHANGED <<builderVars, pollVars, closure, dispatched, response, sentLog, transportCalls,
                   outcome, chan, waker, wakeLog, notified, dropped, droppedAt, panicked,
                   wasmVars>>

(***************************************************************************)
(* impl Future for Request (lines 63-75).                                  *)
(***************************************************************************)
\* a receive that leaves the value in the channel
rx_try_recv_peek(ch, alive) ==
    IF Len(ch) > 0 THEN [tag |-> "Ok", val |-> Some(Head(ch)), rest |-> ch]
    ELSE IF alive THEN [tag |-> "Empty", val |-> None, rest |-> ch]
    ELSE [tag |-> "Disconnected", val |-> None, rest |-> ch]

\* Receiver::try_recv: the oldest value, else Empty or Disconnected
rx_try_recv(ch, alive) ==
    IF Len(ch) > 0 THEN [tag |-> "Ok", val |-> Some(Head(ch)), rest |-> Tail(ch)]
    ELSE IF alive THEN [tag |-> "Empty", val |-> None, rest |-> ch]
    ELSE [tag |-> "Disconnected", val |-> None, rest |-> ch]

\* an ok() that makes an error value of a disconnected channel
ok_disconnected_is_error(r) ==
    IF r.tag = "Ok" THEN r.val
    ELSE IF r.tag = "Disconnected" THEN Some(Err("IOError"))
    ELSE None

\* Result::ok
ok(r) == IF r.tag = "Ok" THEN r.val ELSE None

\* a poll that returns Pending without storing its waker
StoreWakerForgotten(old, n) == old

\* a poll that stores its waker only when the slot is empty
StoreWakerKeepFirst(old, n) == IF IsSome(old) THEN old ELSE Some(n)

\* line 72: shared_state.waker = Some(cx.waker().clone())
StoreWaker(old, n) == Some(n)

\* the scheduler calls poll
PollBegin ==
    /\ stage = "sent"
    /\ ppc = "idle"
    /\ ~dropped
    /\ pollNo < MaxPolls
    /\ pollNo' = pollNo + 1
    /\ ppc' = "lock"
    /\ notified' = FALSE
    /\ UNCHANGED <<builderVars, workerVars, ret, readyCount, lastPending, chan, waker,
                   lock, wakeLog, dropped, droppedAt, panicked,
                   wasmVars>>

\* a poll that takes the lock without waiting for it to be free
PollLockNoWait ==
    /\ ppc = "lock"
    /\ lock' = "poll"
    /\ ppc' = "held"
    /\ UNCHANGED <<builderVars, workerVars, pollNo, ret, readyCount, lastPending, chan,
                   waker, wakeLog, notified, dropped, droppedAt, panicked,
                   wasmVars>>

\* line 67: self.shared_state.lock().unwrap()
PollLock ==
    /\ ppc = "lock"
    /\ lock = "free"
    /\ lock' = "poll"
    /\ ppc' = "held"
    /\ UNCHANGED <<builderVars, workerVars, pollNo, ret, readyCount, lastPending, chan,
                   waker, wakeLog, notified, dropped, droppedAt, panicked,
                   wasmVars>>

\* lines 68-74: try_recv, Ready or store the waker and Pending; the guard is dropped
PollBody ==
    /\ ppc = "held"
    /\ LET r == rx_try_recv(chan, txAlive)
           got == ok(r)
       IN  IF IsSome(got)
           THEN /\ ret' = Some(Ready(Unwrap(got)))
                /\ readyCount' = readyCount + 1
                /\ chan' = r.rest
                /\ UNCHANGED <<waker, lastPending>>
           ELSE /\ waker' = StoreWaker(waker, pollNo)
                /\ ret' = Some(Pending)
                /\ lastPending' = pollNo
                /\ chan' = r.rest
                /\ UNCHANGED readyCount
    /\ lock' = "free"
    /\ ppc' = "idle"
    /\ UNCHANGED <<builderVars, workerVars, pollNo, wakeLog, notified, dropped, droppedAt, panicked,
                   wasmVars>>

\* the Request goes out of scope (no Drop impl: the Arc reference is released)
DropRequest ==
    /\ stage = "sent"
    /\ ppc = "idle"
    /\ ~dropped
    /\ dropped' = TRUE
    /\ droppedAt' = wpc
    /\ UNCHANGED <<builderVars, workerVars, pollVars, chan, waker, lock, wakeLog,
                   notified, panicked,
                   wasmVars>>

(***************************************************************************)
(* wasm32 backend (lines 47-51, 84-104, 183-207).                          *)
(***************************************************************************)
\* the bytes a response buffer is made of: "A", and the two bytes of U+00E9
ByteVals == {65, 195, 169}

RECURSIVE SeqsUpTo(_, _)
\* the sequences over S of length at most n
SeqsUpTo(S, n) ==
    IF n = 0 THEN {<<>>}
    ELSE LET shorter == SeqsUpTo(S, n - 1)
         IN  shorter \cup {Append(q, x) : q \in shorter, x \in S}

Buffers == SeqsUpTo(ByteVals, MaxBufLen)

\* std::str::from_utf8: the length of the sequence a lead byte starts (0: no lead byte)
Utf8Width(b) ==
    IF b < 128 THEN 1
    ELSE IF b >= 194 /\ b <= 223 THEN 2
    ELSE IF b >= 224 /\ b <= 239 THEN 3
    ELSE IF b >= 240 /\ b <= 244 THEN 4
    ELSE 0

IsContinuation(b) == b >= 128 /\ b <= 191

\* the second byte of a sequence is in the range its lead byte allows
SecondByteOk(b1, b2) ==
    IF b1 = 224 THEN b2 >= 160 /\ b2 <= 191
    ELSE IF b1 = 237 THEN b2 >= 128 /\ b2 <= 159
    ELSE IF b1 = 240 THEN b2 >= 144 /\ b2 <= 191
    ELSE IF b1 = 244 THEN b2 >= 128 /\ b2 <= 143
    ELSE IsContinuation(b2)

RECURSIVE Utf8Valid(_)
Utf8Valid(buf) ==
    IF Len(buf) = 0 THEN TRUE
    ELSE LET w == Utf8Width(buf[1])
         IN  /\ w > 0
             /\ Len(buf) >= w
             /\ \A i \in 2..w : IsContinuation(buf[i])
             /\ (w >= 2 => SecondByteOk(buf[1], buf[2]))
             /\ Utf8Valid(SubSeq(buf, w + 1, Len(buf)))

\* the code point of one well-formed sequence
CodePoint(q) ==
    IF Len(q) = 1 THEN q[1]
    ELSE IF Len(q) = 2 THEN (q[1] - 192) * 64 + (q[2] - 128)
    ELSE IF Len(q) = 3 THEN (q[1] - 224) * 4096 + (q[2] - 128) * 64 + (q[3] - 128)
    ELSE (q[1] - 240) * 262144 + (q[2] - 128) * 4096 + (q[3] - 128) * 64 + (q[4] - 128)

RECURSIVE Utf8Decode(_)
\* the text (code points) of a valid buffer
Utf8Decode(buf) ==
    IF Len(buf) = 0 THEN <<>>
    ELSE LET w == Utf8Width(buf[1])
         IN  <<CodePoint(SubSeq(buf, 1, w))>> \o Utf8Decode(SubSeq(buf, w + 1, Len(buf)))

\* std::str::from_utf8(&buf)
from_utf8(buf) ==
    IF Utf8Valid(buf) THEN [tag |-> "Ok", text |-> Utf8Decode(buf)]
    ELSE [tag |-> "Err", text |-> <<>>]

\* lines 185-190: the scheme code of a Method
Scheme(m) ==
    IF m = "Post" THEN 0
    ELSE IF m = "Put" THEN 1
    ELSE IF m = "Get" THEN 2
    ELSE 3

\* lines 192-196: the JsObject built with set_field_string, a field per header name
HeadersObject(hs) ==
    [n \in {hs[i][1] : i \in 1..Len(hs)} |->
        LET last == CHOOSE i \in 1..Len(hs) :
                        /\ hs[i][1] = n
                        /\ \A j \in (i + 1)..Len(hs) : hs[j][1] # n
        IN  hs[last][2]]

\* line 202: self.body.as_ref().map(|s| s.as_str()).unwrap_or("")
BodyOrEmpty(b) == IF IsSome(b) THEN Unwrap(b) ELSE ""

\* lines 183-207: send(&self) on wasm32; the host stores the request and
\* answers with its identifier. The builder is only borrowed (line 184), so
\* send can be called on it again; the Request returned last is the one the
\* program goes on with.
send_wasm32 ==
    /\ stage \in {"building", "sent"}
    /\ panicked = {}
    /\ Len(madeRequests) < MaxSends
    /\ stage' = "sent"
    /\ LET self == Unwrap(builder)
       IN  madeRequests' = Append(madeRequests,
                [scheme |-> Scheme(self.method), url |-> self.url,
                 body |-> BodyOrEmpty(self.body),
                 headers |-> HeadersObject(self.headers)])
    /\ cid' = Some(Len(madeRequests))
    /\ hostState' = "pending"
    /\ hostBuf' = <<>>
    /\ wlog' = <<>>
    /\ wpolls' = 0
    /\ textOut' = 0
    /\ UNCHANGED <<builder, callLog, workerVars, pollVars, sharedVars, panicked>>

\* the host finishes the request and buffers the response bytes under cid
HostComplete ==
    /\ hostState = "pending"
    /\ \E buf \in Buffers : hostBuf' = buf
    /\ hostState' = "ready"
    /\ UNCHANGED <<builderVars, workerVars, pollVars, sharedVars, panicked, cid,
                   madeRequests, wlog, wpolls, textOut>>

\* http_try_recv(cid): the buffered bytes, handed over once, or nil
http_try_recv(state, buf) ==
    IF state = "ready" THEN [js |-> Some(buf), state |-> "taken"]
    ELSE [js |-> None, state |-> state]

\* a try_recv that takes nil for an empty body
request_try_recv_nil_as_empty(js_obj) ==
    IF IsSome(js_obj)
    THEN LET res == from_utf8(Unwrap(js_obj))
         IN  IF res.tag = "Ok"
             THEN [panic |-> FALSE, ret |-> Some(Ok(res.text))]
             ELSE [panic |-> TRUE, ret |-> None]
    ELSE [panic |-> FALSE, ret |-> Some(Ok(<<>>))]

\* lines 94-102: what try_recv makes of the JsObject the host returned
request_try_recv(js_obj) ==
    IF IsSome(js_obj)
    THEN LET res == from_utf8(Unwrap(js_obj))
         IN  IF res.tag = "Ok"
             THEN [panic |-> FALSE, ret |-> Some(Ok(res.text))]
             ELSE [panic |-> TRUE, ret |-> None]
    ELSE [panic |-> FALSE, ret |-> None]

\* lines 91-103: Request::try_recv on wasm32
TryRecv ==
    /\ stage = "sent"
    /\ IsSome(cid)
    /\ "try_recv" \notin panicked
    /\ wpolls < MaxPolls
    /\ wpolls' = wpolls + 1
    /\ LET h == http_try_recv(hostState, hostBuf)
           r == request_try_recv(h.js)
       IN  /\ hostState' = h.state
           /\ IF r.panic
              THEN /\ panicked' = panicked \cup {"try_recv"}
                   /\ UNCHANGED <<wlog, textOut>>
              ELSE /\ wlog' = Append(wlog, r.ret)
                   /\ textOut' = textOut + (IF IsSome(r.ret) THEN 1 ELSE 0)
                   /\ UNCHANGED panicked
    /\ UNCHANGED <<builderVars, workerVars, pollVars, sharedVars, cid, hostBuf,
                   madeRequests>>

(***************************************************************************)
(* The native program: any polls, in any interleaving with the worker.     *)
(***************************************************************************)
Init ==
    /\ stage = "start"
    /\ builder = None
    /\ callLog = None
    /\ closure = None
    /\ dispatched = None
    /\ wpc = "idle"
    /\ response = None
    /\ chan = <<>>
    /\ txAlive = FALSE
    /\ waker = None
    /\ lock = "free"
    /\ ppc = "none"
    /\ pollNo = 0
    /\ ret = None
    /\ readyCount = 0
    /\ lastPending = 0
    /\ wakeLog = <<>>
    /\ notified = TRUE
    /\ dropped = FALSE
    /\ droppedAt = "never"
    /\ sentLog = <<>>
    /\ transportCalls = 0
    /\ outcome = None
    /\ panicked = {}
    /\ cid = None
    /\ hostState = "none"
    /\ hostBuf = <<>>
    /\ madeRequests = <<>>
    /\ wlog = <<>>
    /\ wpolls = 0
    /\ textOut = 0

Next ==
    \/ CallNew
    \/ CallMethod
    \/ CallHeader
    \/ CallBody
    \/ send
    \/ Dispatch
    \/ Transport
    \/ WorkerSend
    \/ WorkerLock
    \/ WorkerWake
    \/ WorkerExit
    \/ PollBegin
    \/ PollLock
    \/ PollBody
    \/ DropRequest

Spec == Init /\ [][Next]_vars

(***************************************************************************)
(* The native program under fair scheduling: a thread that can take a step *)
(* eventually takes it (the worker thread and a poll that was started run  *)
(* to their end); when the scheduler starts a poll stays free.  Weak       *)
(* fairness is enough for the lock because the polls are bounded.          *)
(***************************************************************************)
FairSpec ==
    /\ Init
    /\ [][Next]_vars
    /\ WF_vars(Dispatch)
    /\ WF_vars(Transport)
    /\ WF_vars(WorkerSend)
    /\ WF_vars(WorkerLock)
    /\ WF_vars(WorkerWake)
    /\ WF_vars(WorkerExit)
    /\ WF_vars(PollLock)
    /\ WF_vars(PollBody)

(***************************************************************************)
(* The native program driven as examples/http_request.rs drives it: the    *)
(* executor (block_on) polls the task once and then again each time the    *)
(* task's waker was invoked; the Request is not dropped while awaited.     *)
(***************************************************************************)
SchedPoll ==
    /\ notified
    /\ PollBegin

LiveNext ==
    \/ CallNew
    \/ CallMethod
    \/ CallHeader
    \/ CallBody
    \/ send
    \/ Dispatch
    \/ Transport
    \/ WorkerSend
    \/ WorkerLock
    \/ WorkerWake
    \/ WorkerExit
    \/ SchedPoll
    \/ PollLock
    \/ PollBody

LiveSpec ==
    /\ Init
    /\ [][LiveNext]_vars
    /\ WF_vars(Dispatch)
    /\ WF_vars(Transport)
    /\ WF_vars(WorkerSend)
    /\ WF_vars(WorkerLock)
    /\ WF_vars(WorkerWake)
    /\ WF_vars(WorkerExit)
    /\ WF_vars(SchedPoll)
    /\ WF_vars(PollLock)
    /\ WF_vars(PollBody)

(***************************************************************************)
(* The wasm32 program: the caller builds and sends a request and calls     *)
(* try_recv at any time; the host finishes the request at any time.        *)
(***************************************************************************)
WasmNext ==
    \/ CallNew
    \/ CallMethod
    \/ CallHeader
    \/ CallBody
    \/ send_wasm32
    \/ HostComplete
    \/ TryRecv

WasmSpec == Init /\ [][WasmNext]_vars

(***************************************************************************)
(* Properties.                                                             *)
(***************************************************************************)
\* the waker made by poll n was invoked by the worker
Woken(n) == \E i \in 1..Len(wakeLog) : wakeLog[i] = n

\* what the last try_recv returned, if one has returned
wret == IF Len(wlog) = 0 THEN None ELSE Some(wlog[Len(wlog)])

\* the worker thread has ended normally
WorkerDone == wpc = "done"

\* C1 (as stated): there is no reachable state in which the result has been
\* sent, the worker has terminated, the last poll returned Pending and the
\* waker stored by that poll was never invoked.
C1_NoLostWakeAnyPolls ==
    ~(/\ Len(sentLog) > 0
      /\ WorkerDone
      /\ ret = Some(Pending)
      /\ ~Woken(lastPending))

\* C1 (amended): as long as no poll has returned Ready, the wake notification
\* is never lost: there is no reachable state in which the result has been
\* sent, the worker has terminated, the last poll returned Pending and the
\* waker stored by that poll was never invoked; and the worker invokes a
\* waker only after it has sent the result.
C1_NoLostWake ==
    /\ (/\ Len(sentLog) > 0
        /\ WorkerDone
        /\ ret = Some(Pending)
        /\ readyCount = 0) => Woken(lastPending)
    /\ Len(wakeLog) > 0 => Len(sentLog) > 0

\* C1 witness: the first poll came before the send, returned Pending, and the
\* worker has sent, invoked that poll's waker and terminated.
C1_Witness ==
    /\ WorkerDone
    /\ Len(sentLog) = 1
    /\ readyCount = 0
    /\ ret = Some(Pending)
    /\ wakeLog = <<lastPending>>

\* C2: after send(), under fair scheduling of the worker and of a scheduler that
\* polls once and then again after each invocation of the stored waker, some
\* poll eventually returns Ready, and exactly one poll returns Ready over the
\* whole execution.
C2_EventuallyOneReady ==
    /\ (stage = "sent") ~> [](readyCount = 1)
    /\ [](readyCount <= 1)

\* C2 witness: the first poll returned Pending, the worker invoked its waker
\* and the poll made in answer returned Ready.
C2_Witness ==
    /\ readyCount = 1
    /\ pollNo = 2
    /\ wakeLog = <<1>>
    /\ ppc = "idle"
    /\ WorkerDone

\* C3: no interleaving deadlocks: a poll that waits for the lock acquires it,
\* the worker that waits for the lock acquires it, and whoever holds the lock
\* releases it, also while the worker invokes the waker with the lock held.
C3_NoDeadlock ==
    /\ (ppc = "lock") ~> (ppc = "held")
    /\ (wpc = "lock") ~> (wpc = "held")
    /\ (lock = "worker") ~> (lock = "free")
    /\ (lock = "poll") ~> (lock = "free")

\* C3 witness: a poll waits for the lock while the worker, which has just
\* invoked a waker, still holds it.
C3_Witness ==
    /\ ppc = "lock"
    /\ lock = "worker"
    /\ wpc = "exit"
    /\ Len(wakeLog) = 1

\* C4: over any sequence of polls of one Request at most one poll returns
\* Ready, and a poll made after Ready does not panic: it ends and returns
\* Pending.
C4_AtMostOneReady ==
    /\ [](readyCount <= 1 /\ "poll" \notin panicked)
    /\ [][(readyCount >= 1 /\ ppc = "held" /\ ppc' # "held")
            => (ppc' = "idle" /\ ret' = Some(Pending))]_vars

\* C4 witness: a poll made after Ready has ended.
C4_Witness ==
    /\ readyCount = 1
    /\ pollNo >= 2
    /\ ppc = "idle"
    /\ ret = Some(Pending)

\* C5 (as stated): once a poll has returned Ready, the result slot and the
\* waker slot stay unchanged and no waker is invoked.
C5_NoTransitionAfterReady ==
    [][(readyCount >= 1) => (chan' = chan /\ waker' = waker /\ wakeLog' = wakeLog)]_vars

\* C5 (amended): once a poll has returned Ready, the result slot stays
\* unchanged (empty), nothing more is sent and no later poll returns Ready;
\* the waker slot can still change: the worker may yet take and invoke a waker
\* that an earlier poll stored, and a later poll stores its waker.
C5_ResultSlotFrozenAfterReady ==
    [][(readyCount >= 1)
        => (chan' = chan /\ chan = <<>> /\ sentLog' = sentLog
            /\ readyCount' = readyCount)]_vars

\* C5 witness: after Ready the worker has invoked an earlier poll's waker and a
\* later poll has stored its own.
C5_Witness ==
    /\ readyCount = 1
    /\ Len(wakeLog) = 1
    /\ WorkerDone
    /\ IsSome(waker)

\* C6: a poll returns Ready(r) exactly when the channel holds the worker's
\* result r while the poll holds the lock, and r is the value the worker sent;
\* otherwise it returns Pending and the slot holds the waker of this poll; the
\* waker the worker invokes is the one of the most recent Pending poll.
C6_PollContract ==
    [][/\ (ppc = "held" /\ ppc' # "held") =>
            IF Len(chan) > 0
            THEN /\ ret' = Some(Ready(Head(chan)))
                 /\ sentLog = <<Head(chan)>>
                 /\ waker' = waker
            ELSE /\ ret' = Some(Pending)
                 /\ waker' = Some(pollNo)
       /\ (wakeLog' # wakeLog) => (wakeLog' = Append(wakeLog, lastPending))
      ]_vars

\* C6 witness: two polls returned Pending and the worker invoked the waker of
\* the second one only.
C6_Witness ==
    /\ readyCount = 0
    /\ pollNo = 2
    /\ lastPending = 2
    /\ wakeLog = <<2>>

\* C7: the worker writes exactly one result into the channel: none before
\* line 172, one from then on, and the channel never holds more than one.
C7_ExactlyOneSend ==
    /\ Len(sentLog) <= 1
    /\ Len(chan) <= 1
    /\ wpc \in {"idle", "call", "wait", "send"} => Len(sentLog) = 0
    /\ wpc \in {"lock", "held", "exit", "done"} => Len(sentLog) = 1

\* C7 witness: the worker has ended, and its one result was received.
C7_Witness ==
    /\ WorkerDone
    /\ Len(sentLog) = 1
    /\ ret = Some(Ready(sentLog[1]))

\* C9: the one result sent is Err(UreqError) exactly when the transport call
\* failed, Err(IOError) exactly when the call succeeded and into_string failed,
\* and Ok(text) otherwise; the call is issued once; the caller sees the error
\* only as the result of the Ready poll; nothing panics.
C9_ErrorMapping ==
    /\ transportCalls <= 1
    /\ wpc \in {"wait", "send", "lock", "held", "exit", "done"} => transportCalls = 1
    /\ panicked = {}
    /\ Len(sentLog) > 0 =>
          LET o == Unwrap(outcome)
              r == sentLog[1]
          IN  /\ (r = Err("UreqError")) <=> ~o.callOk
              /\ (r = Err("IOError")) <=> (o.callOk /\ ~o.readable)
              /\ (r = Ok(o.text)) <=> (o.callOk /\ o.readable)
    /\ (IsSome(ret) /\ Unwrap(ret).tag = "Ready") => Unwrap(ret) = Ready(sentLog[1])

\* C9 witness: the call succeeded, into_string failed, and a poll returned
\* Ready(Err(IOError)).
C9_Witness ==
    /\ ret = Some(Ready(Err("IOError")))
    /\ outcome = Some([callOk |-> TRUE, readable |-> FALSE, text |-> <<>>])

\* C8: malformed UTF-8 in the response bytes surfaces as Err(IOError) and never
\* as a panic: on wasm32 a try_recv that gets a buffer that is not valid UTF-8
\* returns Some(Err(IOError)); on the native backend a failing into_string
\* yields Err(IOError) sent through the channel.
C8_MalformedUtf8IsIOError ==
    /\ [][(wpolls' = wpolls + 1 /\ hostState = "ready" /\ ~Utf8Valid(hostBuf))
            => (wret' = Some(Some(Err("IOError"))) /\ panicked' = panicked)]_vars
    /\ [](panicked = {})
    /\ []((Len(sentLog) > 0 /\ Unwrap(outcome).callOk /\ ~Unwrap(outcome).readable)
            => sentLog[1] = Err("IOError"))

C11_WorkerTerminates ==
    /\ (stage = "sent") ~> WorkerDone
    /\ [][(~WorkerDone /\ WorkerDone') => (wpc = "exit" /\ Len(sentLog) = 1)]_vars
    /\ [](dropped /\ wpc \in {"lock", "held", "exit", "done"} => Len(sentLog) = 1)
    /\ (droppedAt \in {"call", "wait", "send"}) ~> (WorkerDone /\ Len(sentLog) = 1)
    /\ [](wpc # "panic")

\* C11 witness: the Request was dropped without a poll before the worker had
\* made its call, and the worker has ended with its result sent.
C11_Witness ==
    /\ droppedAt = "call"
    /\ pollNo = 0
    /\ WorkerDone
    /\ Len(sentLog) = 1
    /\ Len(chan) = 1

\* C12: one spec is dispatched at most once, on either backend: at most one
\* worker thread makes a transport call (native) and at most one
\* http_make_request call reaches the host (wasm32).
C12_OneDispatchPerSpec ==
    /\ transportCalls <= 1
    /\ Len(madeRequests) <= 1

\* C13: the header sequence of the spec, while it is being built and once
\* the worker owns it, is the sequence of header() arguments in call order
\* (duplicates kept), and the request.set calls the worker makes on the
\* outbound call are that sequence, in that order.
C13_HeaderOrder ==
    /\ IsSome(builder) => Unwrap(builder).headers = Unwrap(callLog).headers
    /\ IsSome(closure) => Unwrap(closure).headers = Unwrap(callLog).headers
    /\ IsSome(dispatched) => Unwrap(dispatched).sets = Unwrap(callLog).headers

\* C13 witness: header("B","2") then header("A","1"), and the call in flight
\* was given B before A.
C13_Witness ==
    /\ IsSome(dispatched)
    /\ Unwrap(callLog).headers = <<<<"B", "2">>, <<"A", "1">>>>
    /\ Unwrap(dispatched).sets = <<<<"B", "2">>, <<"A", "1">>>>

\* C14: for every Method, the call in flight is the payload-sending one,
\* with the text of the last body() call, if body() was called on the spec
\* (with an empty text too), and the bodiless one if body() was never called.
C14_VariantByBodyPresence ==
    IsSome(dispatched) =>
        LET d == Unwrap(dispatched)
            log == Unwrap(callLog)
        IN  IF IsSome(log.body)
            THEN d.variant = "send_string" /\ d.payload = log.body
            ELSE d.variant = "call" /\ d.payload = None

\* C14 witness: a GET whose body was set to the empty text goes out as a
\* payload-sending call.
C14_Witness ==
    /\ IsSome(dispatched)
    /\ Unwrap(callLog).body = Some("")
    /\ Unwrap(dispatched).verb = "GET"
    /\ Unwrap(dispatched).variant = "send_string"
    /\ Unwrap(dispatched).payload = Some("")

\* C15: new(url) yields Get, no headers, no body; on every spec the builder
\* can hold, method(m) changes only the method, header(n, v) only appends
\* the pair, body(t) changes only the body; the spec's method and body are
\* those of the last method() and body() call (or Get and none), and the
\* call in flight is made with that method and url.
C15_BuilderFrame ==
    /\ \A u \in Urls :
        new(u) = [url |-> u, method |-> "Get", headers |-> <<>>, body |-> None]
    /\ IsSome(builder) =>
        LET b == Unwrap(builder)
            log == Unwrap(callLog)
        IN  /\ \A m \in Methods :
                /\ method(b, m).method = m
                /\ method(b, m).url = b.url
                /\ method(b, m).headers = b.headers
                /\ method(b, m).body = b.body
            /\ \A p \in HeaderPairs :
                /\ header(b, p[1], p[2]).headers = Append(b.headers, p)
                /\ header(b, p[1], p[2]).url = b.url
                /\ header(b, p[1], p[2]).method = b.method
                /\ header(b, p[1], p[2]).body = b.body
            /\ \A t \in BodyTexts :
                /\ body(b, t).body = Some(t)
                /\ body(b, t).url = b.url
                /\ body(b, t).method = b.method
                /\ body(b, t).headers = b.headers
            /\ b.url = log.url
            /\ b.method = (IF IsSome(log.method) THEN Unwrap(log.method) ELSE "Get")
            /\ b.body = log.body
    /\ IsSome(dispatched) =>
        LET d == Unwrap(dispatched)
            log == Unwrap(callLog)
            m == IF IsSome(log.method) THEN Unwrap(log.method) ELSE "Get"
        IN  /\ d.url = log.url
            /\ m = "Get" => d.verb = "GET"
            /\ m = "Post" => d.verb = "POST"
            /\ m = "Put" => d.verb = "PUT"
            /\ m = "Delete" => d.verb = "DELETE"

\* C15 witness: a spec given two headers, a body and the method Delete
\* is in flight as a DELETE with the headers and the body kept.
C15_Witness ==
    /\ IsSome(dispatched)
    /\ Unwrap(callLog).method = Some("Delete")
    /\ Unwrap(dispatched).verb = "DELETE"
    /\ Len(Unwrap(dispatched).sets) = 2
    /\ Unwrap(dispatched).payload = Some("payload")

\* C16: the worker has sent its result when it holds the lock, so whenever a
\* waker has been invoked the result has been sent; a poll that starts after
\* a waker invocation, no poll having returned Ready before, finds the result
\* in the channel, and a poll that ends after a waker invocation, no poll
\* having returned Ready before, returns Ready with the result sent.
C16_SendBeforeWake ==
    /\ [](wpc \in {"held", "exit", "done"} => Len(sentLog) = 1)
    /\ [](Len(wakeLog) > 0 => Len(sentLog) = 1)
    /\ [][(ppc = "idle" /\ ppc' = "lock" /\ Len(wakeLog) > 0 /\ readyCount = 0)
            => chan = sentLog]_vars
    /\ [][(ppc = "held" /\ ppc' = "idle" /\ Len(wakeLog) > 0 /\ readyCount = 0)
            => ret' = Some(Ready(sentLog[1]))]_vars

\* C16 witness: the first poll returned Pending, the worker invoked its
\* waker, and the second poll, started after that invocation, returned Ready.
C16_Witness ==
    /\ wakeLog = <<1>>
    /\ ~notified
    /\ pollNo = 2
    /\ ppc = "idle"
    /\ readyCount = 1
    /\ ret = Some(Ready(sentLog[1]))

\* C17 (as stated): the result slot and the waker slot change only in a step
\* of the party that holds the lock: the worker puts its result in, takes the
\* waker out, and the poll takes the result out, stores the waker, each while
\* holding the lock; and the two never hold the lock together.
C17_AllAccessUnderLock ==
    /\ [](~(ppc = "held" /\ wpc \in {"held", "exit"}))
    /\ [][/\ Len(chan') > Len(chan) => (lock = "worker" /\ wpc \in {"held", "exit"})
          /\ Len(chan') < Len(chan) => (lock = "poll" /\ ppc = "held")
          /\ waker' # waker =>
                \/ (lock = "poll" /\ ppc = "held")
                \/ (lock = "worker" /\ wpc \in {"held", "exit"})
         ]_vars

\* C17 (amended): the poll and the worker never hold the lock together; the
\* waker slot changes, and the result is taken out of the channel, only in a
\* step of the party holding the lock; the one write of the result is the
\* worker's send, made without the lock, before the worker acquires it; and
\* while the poll is inside its critical section the worker takes and
\* invokes no waker.
C17_LockDiscipline ==
    /\ [](~(ppc = "held" /\ wpc \in {"held", "exit"}))
    /\ [](lock = "poll" <=> ppc = "held")
    /\ [](lock = "worker" <=> wpc \in {"held", "exit"})
    /\ [][/\ Len(chan') > Len(chan) => (wpc = "send" /\ lock # "worker")
          /\ Len(chan') < Len(chan) => (lock = "poll" /\ ppc = "held")
          /\ waker' # waker =>
                \/ (lock = "poll" /\ ppc = "held" /\ ppc' = "idle")
                \/ (lock = "worker" /\ wpc = "held" /\ wpc' = "exit")
          /\ (ppc = "held" /\ wakeLog' # wakeLog) => FALSE
          /\ (ppc = "held" /\ ppc' = "held") => waker' = waker
         ]_vars

\* C17 witness: the poll is inside its critical section, the worker has sent
\* its result and waits for the lock.
C17_Witness ==
    /\ ppc = "held"
    /\ lock = "poll"
    /\ wpc = "lock"
    /\ chan = sentLog
    /\ Len(chan) = 1

\* C18: the worker's send never fails: the worker never panics, the receiver
\* is alive whenever the worker is about to send (the worker's own reference
\* keeps the shared state alive, with the Request dropped too), and the send
\* step puts the result into the channel; a result sent after the Request
\* was dropped is never returned by a poll and goes away with the shared
\* state when the worker ends.
C18_SendNeverFails ==
    /\ [](wpc # "panic" /\ "worker" \notin panicked)
    /\ [](wpc = "send" => (RxAlive /\ ArcCount = (IF dropped THEN 1 ELSE 2)))
    /\ [][(wpc = "send" /\ wpc' # "send")
            => (wpc' = "lock" /\ chan' = Append(chan, Unwrap(response))
                /\ sentLog' = <<Unwrap(response)>>)]_vars
    /\ [][dropped => (ret' = ret /\ readyCount' = readyCount /\ ppc' = ppc)]_vars
    /\ [](droppedAt \in {"call", "wait", "send"} /\ WorkerDone
            => (readyCount = 0 /\ chan = sentLog /\ ~RxAlive))

\* C18 witness: the Request was polled once, then dropped while the call was
\* in flight; the worker sent its result all the same and ended, and the
\* result was never returned.
C18_Witness ==
    /\ droppedAt = "wait"
    /\ ret = Some(Pending)
    /\ WorkerDone
    /\ panicked = {}
    /\ Len(sentLog) = 1
    /\ chan = sentLog
    /\ readyCount = 0

\* C19: the worker invokes a waker at most once; it does so only in its
\* waker step, holding the lock, for the waker of a poll that returned
\* Pending before, and that step leaves the slot empty; once the worker is
\* past its waker step nothing is invoked any more; and if the worker has
\* done its waker step when the first poll takes the result, no waker was
\* invoked and that poll returns Ready.
C19_AtMostOneWake ==
    /\ [](Len(wakeLog) <= 1)
    /\ [][/\ wakeLog' # wakeLog =>
                /\ wpc = "held" /\ lock = "worker"
                /\ lastPending > 0
                /\ waker = Some(lastPending)
                /\ wakeLog' = <<lastPending>>
                /\ waker' = None
          /\ (wpc = "held" /\ wpc' # "held") => waker' = None
          /\ (wpc = "held" /\ lastPending = 0) => wakeLog' = <<>>
          /\ wpc \in {"exit", "done"} => wakeLog' = wakeLog
          /\ (pollNo = 1 /\ ppc = "held" /\ ppc' = "idle" /\ wpc \in {"exit", "done"})
                => (wakeLog' = <<>> /\ ret' = Some(Ready(sentLog[1])))
         ]_vars

\* C19 witness: the first poll returned Pending; the worker has invoked its
\* waker, once, and left the slot empty.
C19_Witness ==
    /\ wpc = "exit"
    /\ lastPending = 1
    /\ wakeLog = <<1>>
    /\ waker = None
    /\ readyCount = 0

\* C20: a poll that takes the lock after Ready was returned and after the
\* worker has ended finds the channel empty and disconnected, returns
\* Pending and stores its waker; no waker is invoked once the worker has
\* ended, so the waker in the slot then is one that was never invoked.
C20_PollAfterReadyNeverWoken ==
    /\ [][(ppc = "held" /\ ppc' = "idle" /\ readyCount = 1 /\ WorkerDone) =>
            /\ rx_try_recv(chan, txAlive).tag = "Disconnected"
            /\ ret' = Some(Pending)
            /\ readyCount' = 1
            /\ waker' = Some(pollNo)
            /\ ~Woken(pollNo)'
         ]_vars
    /\ [][WorkerDone => (WorkerDone' /\ wakeLog' = wakeLog)]_vars
    /\ [](WorkerDone /\ IsSome(waker) => ~Woken(Unwrap(waker)))

\* C20 witness: the first poll returned Ready, the worker ended, and the
\* second poll returned Pending, its waker stored and not invoked.
C20_Witness ==
    /\ WorkerDone
    /\ ~txAlive
    /\ readyCount = 1
    /\ pollNo = 2
    /\ ppc = "idle"
    /\ ret = Some(Pending)
    /\ waker = Some(2)
    /\ wakeLog = <<>>

====
